---- MODULE Spec2Model ----
(***************************************************************************)
(* The buyer side of a BitWrk trade: client/buy.go.                        *)
(*                                                                         *)
(* One BuyActivity is modelled together with the tasks that run on its     *)
(* behalf: the driver (PerformBuy and everything it calls), the            *)
(* transaction poller started by doRemoteBuy, the watchdog started by      *)
(* interactWithSeller, and the background finalizer (finishBuy) with its   *)
(* own poller.  The environment consists of the coordinator (which moves   *)
(* the transaction through its phases), the seller (which answers HTTP     *)
(* requests), a locally matched sell activity and the caller (which may    *)
(* send on the interrupt channel).                                         *)
(*                                                                         *)
(* Errors are sequences of tags: fmt.Errorf("...: %v", err) prepends a     *)
(* tag to the wrapped error, and NoErr (the empty sequence) is Go's nil.   *)
(***************************************************************************)
EXTENDS Naturals, Sequences, FiniteSets

\* How far around the chunk limit the chunk counts of the work files range.
MaxExcess == 1

\* The fixed implementation limit on the number of chunks of a work file.
MaxNumberOfChunksInWorkFile == 16384

\* http.StatusOK
StatusOK == 200

\* Some status other than http.StatusOK
StatusBad == 500

NoErr == << >>

NoFile == [key |-> "none", handle |-> "none"]

\* cafs.File.Duplicate(): an independent owning handle of the same content.
Duplicate(f, h) == [key |-> f.key, handle |-> h]

(***************************************************************************)
(* The transaction as the coordinator publishes it.                        *)
(***************************************************************************)
Phases ==
  {"Establishing", "BuyerEstablished", "SellerEstablished", "Transmitting",
   "Working", "Unverified", "Finished"}

States == {"Active", "Retired"}

Rank(p) ==
  CASE p = "Establishing" -> 0
    [] p \in {"BuyerEstablished", "SellerEstablished"} -> 1
    [] p = "Transmitting" -> 2
    [] p = "Working" -> 3
    [] p = "Unverified" -> 4
    [] OTHER -> 5

TxValues == [state : States, phase : Phases]

NoTx == [state |-> "none", phase |-> "none"]

\* What a refresh can turn the cached transaction into: phases only advance
\* along the protocol's DAG and a retired transaction stays retired.
TxNext(t) ==
  {u \in TxValues :
     /\ u # t
     /\ Rank(u.phase) >= Rank(t.phase)
     /\ (Rank(u.phase) = Rank(t.phase) => u.phase = t.phase)
     /\ (t.state = "Retired" => u.state = "Retired")}

\* tx.ResultDecryptionKey: published by the coordinator once the receipt was
\* accepted, i.e. from phase Unverified on.
ResultDecryptionKey(t) ==
  IF Rank(t.phase) >= 4 THEN "K" ELSE "none"

(***************************************************************************)
(* Work files.                                                             *)
(***************************************************************************)
ChunkCounts ==
  MaxNumberOfChunksInWorkFile .. (MaxNumberOfChunksInWorkFile + MaxExcess)

WorkFiles ==
  {[key |-> "W", handle |-> "caller", chunked |-> FALSE, numChunks |-> 1]}
    \cup {[key |-> "W", handle |-> "caller", chunked |-> TRUE, numChunks |-> n] :
            n \in ChunkCounts}

(***************************************************************************)
(* Pure decisions of buy.go.                                               *)
(***************************************************************************)

\* doPerformBuy: local iff a local sell is bound.
ChoosePathSwapped(lm) == IF lm THEN "begin" ELSE "localWait"

ChoosePath(lm) == IF lm THEN "localWait" ELSE "begin"

\* doLocalBuy: the predicate of interruptibleWaitWhile.
LocalWaitWhile(s) == s.alive /\ s.resultFile = NoFile

\* doLocalBuy: what the predicate captures when it stops the wait.
LocalWaitResultDeadOnly(s) ==
  IF s.resultFile # NoFile /\ ~s.alive
    THEN Duplicate(s.resultFile, "buy") ELSE NoFile

LocalWaitResult(s) ==
  IF s.resultFile # NoFile THEN Duplicate(s.resultFile, "buy") ELSE NoFile

\* PerformBuy: lastError is written iff doPerformBuy returned an error.
ShouldRecordInverted(err) == err = NoErr

ShouldRecord(err) == err # NoErr

\* doRemoteBuy: the first deferred call that runs when the given step returns
\* an error.  The send on abortPolling is deferred only after the secret was
\* stored, right before the poller is started.
DeferredAfterWithPoller(step) == "abortPoll"

DeferredAfter(step) ==
  IF step \in {"begin", "secret"} THEN "returnToken" ELSE "abortPoll"

\* doRemoteBuy: an error of SendTxMessageEstablishBuyer ends the buy at once.
AfterEstablishIgnoring(err) == "waitTransmitting"

AfterEstablish(err) == IF err # NoErr THEN "abortPoll" ELSE "waitTransmitting"

\* doRemoteBuy: a failed wait for phase Transmitting ends the buy.
AfterAwaitTransmittingIgnoring(err) == "iwsWatchdog"

AfterAwaitTransmitting(err) == IF err # NoErr THEN "abortPoll" ELSE "iwsWatchdog"

\* doRemoteBuy: the error returned after the seller interaction and the wait
\* for phase Unverified.
CombineErrorsPhaseOnly(sErr, pErr) ==
  IF sErr = NoErr /\ pErr = NoErr THEN NoErr
  ELSE IF sErr = NoErr THEN pErr
  ELSE IF pErr = NoErr THEN sErr
  ELSE pErr

CombineErrors(sErr, pErr) ==
  IF sErr = NoErr /\ pErr = NoErr THEN NoErr
  ELSE IF sErr = NoErr THEN pErr
  ELSE IF pErr = NoErr THEN sErr
  ELSE pErr \o <<"Additionally">> \o sErr

\* interactWithSeller: the watchdog's predicate.
WatchdogOKNoState(t) ==
  t.phase \in {"SellerEstablished", "Transmitting", "Working"}

WatchdogOK(t) ==
  /\ t.state = "Active"
  /\ t.phase \in {"SellerEstablished", "Transmitting", "Working"}

\* The seller's answers to the capability probe.
NoCaps == [chunked |-> FALSE, compressed |-> FALSE, syncInfo |-> FALSE]

AllCaps == [chunked |-> TRUE, compressed |-> TRUE, syncInfo |-> TRUE]

CapSets == [chunked : BOOLEAN, compressed : BOOLEAN, syncInfo : BOOLEAN]

ProbeResponses ==
  {[kind |-> "transportError", status |-> 0, decodable |-> FALSE, caps |-> NoCaps],
   [kind |-> "http", status |-> StatusBad, decodable |-> TRUE, caps |-> AllCaps],
   [kind |-> "http", status |-> StatusOK, decodable |-> FALSE, caps |-> AllCaps]}
    \cup {[kind |-> "http", status |-> StatusOK, decodable |-> TRUE, caps |-> c] :
            c \in CapSets}

NoProbe == [kind |-> "none", status |-> 0, decodable |-> FALSE, caps |-> NoCaps]

\* testSellerForCapabilities: the named results and the error.
TestSellerForCapabilitiesAnyStatus(r) ==
  IF r.kind = "transportError" THEN [caps |-> NoCaps, err |-> <<"Transport">>]
  ELSE IF ~r.decodable THEN [caps |-> NoCaps, err |-> <<"Decode">>]
  ELSE [caps |-> r.caps, err |-> NoErr]

TestSellerForCapabilities(r) ==
  IF r.kind = "transportError" THEN [caps |-> NoCaps, err |-> <<"Transport">>]
  ELSE IF r.status # StatusOK THEN [caps |-> NoCaps, err |-> NoErr]
  ELSE IF ~r.decodable THEN [caps |-> NoCaps, err |-> <<"Decode">>]
  ELSE [caps |-> r.caps, err |-> NoErr]

\* interactWithSeller: chunked, compressed and legacy, from the probe's result.
Negotiate(t) ==
  IF t.err # NoErr
    THEN [chunked |-> FALSE, compressed |-> FALSE, legacy |-> TRUE]
    ELSE [chunked |-> t.caps.chunked, compressed |-> t.caps.compressed,
          legacy |-> ~t.caps.syncInfo]

\* transmitWorkChunked: the bound on the number of chunks.
TooManyChunksOffByOne(n) == n >= MaxNumberOfChunksInWorkFile

TooManyChunks(n) == n > MaxNumberOfChunksInWorkFile

\* var syncinfo remotesync.SyncInfo, before SetChunksFromFile.
NoSyncInfo == [chunksOf |-> "none", perm |-> "none"]

\* transmitWorkChunked: SetTrivialPermutation in legacy mode, a permutation
\* drawn by pseudorand.Perm(256) otherwise.
Permutation(legacy) == IF legacy THEN "trivial" ELSE "random"

\* assist.HandprintFromSyncInfo
HandprintFromSyncInfo(si) == <<"handprint", si>>

\* encodeSyncInfoAndInitiateWishlistTransmission: the first form field.  The
\* legacy stream holds the chunk hashes only, the JSON the whole syncinfo.
SyncInfoFieldSwapped(legacy, si) ==
  IF legacy THEN [name |-> "syncinfojson", value |-> <<"json", si>>]
  ELSE [name |-> "a32chunks", value |-> <<"legacy", si.chunksOf>>]

SyncInfoField(legacy, si) ==
  IF legacy THEN [name |-> "a32chunks", value |-> <<"legacy", si.chunksOf>>]
  ELSE [name |-> "syncinfojson", value |-> <<"json", si>>]

\* The POST requests the buy sends to the seller.
PostKinds == {"LinearPost", "WishlistPost", "ChunkPost", "ReceiptPost", "AssistPost"}

\* postToSeller and signReceipt: what becomes of the seller's answer.
PostErrorIgnoringStatus(o) ==
  CASE o \in {"ok", "bad"} -> NoErr
    [] OTHER -> <<"Transport">>

PostError(o) ==
  CASE o = "ok" -> NoErr
    [] o = "bad" -> <<"BadStatus">>
    [] OTHER -> <<"Transport">>

\* transmitWorkChunked: the chunk body is sent only when requestMissingChunks
\* returned no error.
AfterWishlistIgnoring(err) == "chunkPost"

AfterWishlist(err) == IF err # NoErr THEN "iwsClose" ELSE "chunkPost"

\* The deferred temp.Dispose() of interactWithSeller and decryptResult: a
\* temporary is none, open, closed or disposed.
DisposeOnlyOpen(t) == IF t = "open" THEN "disposed" ELSE t

Dispose(t) == IF t = "none" THEN "none" ELSE "disposed"

\* The values io.ReadFull(rand.Reader, secret[:]) can draw.
Secrets == {"S1"}

\* sha256 of the concatenation of the parts written to it.
Sha256(parts) == <<"sha256">> \o parts

\* workSecretHash = hash(workHash | secret)
WorkSecretHashSecretFirst(workHash, secret) == Sha256(<<secret, workHash>>)

WorkSecretHash(workHash, secret) == Sha256(<<workHash, secret>>)

\* Thash.String(): the hexadecimal form of a hash value.
HexString(h) == <<"hex", h>>

\* No EstablishBuyer message was sent.
NoMsg == [workHash |-> "none", workSecretHash |-> << >>]

\* mwriter.WriteField("buyersecret", a.buyerSecret.String())
SecretField(secret) == [name |-> "buyersecret", value |-> HexString(secret)]

\* The fields of the activity that the code of a driver step reads or writes
\* outside execSync and outside a waitWhile predicate.
UnlockedAccess(step) ==
  CASE step = "clearance" -> {"localMatch"}                 \* if a.localMatch != nil
    [] step = "localWait" -> {"localMatch"}                 \* sell := a.localMatch
    [] step = "startPoll" -> {"workFile"}                   \* a.workFile.Key()
    [] step = "iwsRegister" -> {"workFile"}                 \* a.workFile.IsChunked()
    [] step = "probe" -> {"tx"}                             \* *a.tx.WorkerURL
    [] step = "linearPost" -> {"workFile", "tx", "buyerSecret"}
    [] step = "chunkCheck" -> {"workFile"}                  \* a.workFile.NumChunks()
    [] step = "wishlist" -> {"tx", "buyerSecret"}
    [] step = "chunkPost" -> {"workFile", "tx"}
    [] step = "receipt" -> {"encResultFile", "tx"}
    [] step = "decrypt" -> {"encResultKey", "encResultFile"}
    [] step = "spawnFin" -> {"resultFile"}                  \* return a.resultFile, nil
    [] OTHER -> {}

(***************************************************************************)
(* Collaborators of buy.go that live in the Trade type.                    *)
(***************************************************************************)

\* One evaluation of waitForTransactionPhase's predicate.
WaitForPhaseEval(t, target, transient) ==
  IF t.state # "Active" THEN "expired"
  ELSE IF t.phase = target THEN "ok"
  ELSE IF t.phase \in transient THEN "wait"
  ELSE "violation"

\* A transaction value a phase wait may see without failing.
LegalTx(t, target, transient) ==
  t.state = "Active" /\ t.phase \in ({target} \cup transient)

WaitError(r) ==
  CASE r = "expired" -> <<"TxExpired">>
    [] r = "violation" -> <<"PhaseViolation">>
    [] OTHER -> NoErr

\* What a request through the scoped transport can come to.
SellerOutcomes(transport) ==
  IF transport = "closed" THEN {"transportError"}
  ELSE {"ok", "bad", "transportError"}

EstablishingTransient == {"Establishing", "SellerEstablished", "BuyerEstablished"}

TransmittingTransient == {"Transmitting", "Working"}

VARIABLES
  pc,               \* the driver's position in PerformBuy and its callees
  ret,              \* what PerformBuy returns: [file, err]
  alive, lastError, workFile, localMatch, resultFile, buyerSecret,
  encResultFile, encResultKey, tx,                \* fields of the activity
  lastErrorWritten, \* history: this call wrote lastError
  sell,             \* the locally matched sell: [alive, resultFile]
  cleared,          \* history: outcome of awaitClearance
  path,             \* history: the path doPerformBuy took
  interrupt,        \* the interrupt channel: idle, pending (a sender waits), taken
  pushIntr,         \* history: the interrupt was sent during the chunk body push
  token,            \* the transmission token: none, held, returned
  poller,           \* doRemoteBuy's poller: off, running, gaveUp, stopped
  producer,         \* the goroutine writing the request body: none, sending,
                    \* tokenBack, done, failed
  badSeen,          \* history, per phase wait: the illegal tx an evaluation saw
  waited,           \* history: the phase waits that were carried out
  net,              \* history: the kinds of network requests issued
  watchdog,         \* none, running, fired, exited
  st,               \* the scoped transport: none, open, closed
  probeResp,        \* history: the seller's answer to the capability probe
  mode,             \* interactWithSeller's chunked, compressed, legacy
  iwsErr,           \* the error interactWithSeller is returning
  assistNode,       \* our node in the assistive ticket registry
  sellerErr, phaseErr,                            \* locals of doRemoteBuy
  fin,              \* the finalizer's position
  finPoller,        \* finishBuy's poller: off, running, gaveUp, stopped
  encTemp,          \* the CAFS temporary of the encrypted result
  decTemp,          \* the CAFS temporary of the decrypted result
  estMsg,           \* the EstablishBuyer message sent: [workHash, workSecretHash]
  form,             \* the form fields of the work request, in the order written
  answers,          \* history: the seller's answer to each kind of POST
  syncinfo,         \* transmitWorkChunked's syncinfo: [chunksOf, perm]
  nodeKey,          \* the handprint our registry node was initialised with
  interestCall,     \* history: our node's state when SetNodeInterested was called
  ticketCall        \* history: our node's state when NewTicket was called

vars ==
  <<pc, ret, alive, lastError, workFile, localMatch, resultFile, buyerSecret,
    encResultFile, encResultKey, tx, lastErrorWritten, sell, cleared, path,
    interrupt, pushIntr, token, poller, producer, badSeen, waited, net, watchdog,
    st, probeResp, mode, iwsErr, assistNode, sellerErr, phaseErr, fin, finPoller,
    encTemp, decTemp, estMsg, form, answers, syncinfo, nodeKey, interestCall,
    ticketCall>>

fieldVars ==
  <<alive, lastError, lastErrorWritten, workFile, localMatch, resultFile,
    buyerSecret, encResultFile, encResultKey>>

localVars == <<sell, cleared, path>>

intrVars == <<interrupt, pushIntr>>

txVars == <<tx, poller, badSeen, waited>>

iwsVars == <<watchdog, st, probeResp, mode, iwsErr, assistNode, producer>>

errVars == <<sellerErr, phaseErr>>

finVars == <<fin, finPoller>>

tempVars == <<encTemp, decTemp>>

msgVars == <<estMsg, form, answers>>

syncVars == <<syncinfo, nodeKey, interestCall, ticketCall>>

Init ==
  /\ pc = "start"
  /\ ret = [file |-> NoFile, err |-> NoErr]
  /\ alive = TRUE
  /\ lastError = NoErr
  /\ lastErrorWritten = FALSE
  /\ workFile \in WorkFiles
  /\ localMatch = FALSE
  /\ resultFile = NoFile
  /\ buyerSecret = "none"
  /\ encResultFile = NoFile
  /\ encResultKey = "none"
  /\ tx = [state |-> "Active", phase |-> "Establishing"]
  /\ sell = [alive |-> TRUE, resultFile |-> NoFile]
  /\ cleared = "pending"
  /\ path = "none"
  /\ interrupt = "idle"
  /\ pushIntr = FALSE
  /\ token = "none"
  /\ poller = "off"
  /\ producer = "none"
  /\ badSeen = [T |-> NoTx, U |-> NoTx]
  /\ waited = {}
  /\ net = {}
  /\ watchdog = "none"
  /\ st = "none"
  /\ probeResp = NoProbe
  /\ mode = [chunked |-> FALSE, compressed |-> FALSE, legacy |-> TRUE]
  /\ iwsErr = NoErr
  /\ assistNode = "none"
  /\ sellerErr = NoErr
  /\ phaseErr = NoErr
  /\ fin = "none"
  /\ finPoller = "off"
  /\ encTemp = "none"
  /\ decTemp = "none"
  /\ estMsg = NoMsg
  /\ form = << >>
  /\ answers = [q \in PostKinds |-> "none"]
  /\ syncinfo = NoSyncInfo
  /\ nodeKey = "none"
  /\ interestCall = "none"
  /\ ticketCall = "none"

\* return nil, e
Fail(e) == [file |-> NoFile, err |-> e]

(***************************************************************************)
(* PerformBuy, doPerformBuy and doLocalBuy.                                *)
(***************************************************************************)

\* a.workFile = workFile.Duplicate()
TakeWorkFile ==
  /\ pc = "start"
  /\ workFile' = [workFile EXCEPT !.handle = Duplicate(workFile, "buy").handle]
  /\ pc' = "clearance"
  /\ UNCHANGED <<ret, alive, lastError, lastErrorWritten, localMatch, resultFile,
                 buyerSecret, encResultFile, encResultKey, net, token>>
  /\ UNCHANGED <<localVars, intrVars, txVars, iwsVars, errVars, finVars>>
  /\ UNCHANGED tempVars
  /\ UNCHANGED msgVars
  /\ UNCHANGED syncVars

\* awaitClearance grants the buy, binding a local sell or not.
ClearanceGranted ==
  /\ pc = "clearance"
  /\ \E lm \in BOOLEAN :
       /\ localMatch' = lm
       /\ pc' = ChoosePath(lm)
       /\ path' = IF ChoosePath(lm) = "localWait" THEN "local" ELSE "remote"
  /\ cleared' = "ok"
  /\ UNCHANGED <<ret, alive, lastError, lastErrorWritten, workFile, resultFile,
                 buyerSecret, encResultFile, encResultKey, sell, net, token>>
  /\ UNCHANGED <<intrVars, txVars, iwsVars, errVars, finVars>>
  /\ UNCHANGED tempVars
  /\ UNCHANGED msgVars
  /\ UNCHANGED syncVars

\* awaitClearance fails: the buy was refused, or the interrupt was read.
ClearanceFailed ==
  /\ pc = "clearance"
  /\ \E e \in {<<"ClearanceDenied">>} \cup
               (IF interrupt = "pending" THEN {<<"Interrupted">>} ELSE {}) :
       /\ ret' = Fail(e)
       /\ interrupt' = IF e = <<"Interrupted">> THEN "taken" ELSE interrupt
  /\ cleared' = "failed"
  /\ pc' = "record"
  /\ UNCHANGED <<fieldVars, sell, path, pushIntr, net, token>>
  /\ UNCHANGED <<txVars, iwsVars, errVars, finVars>>
  /\ UNCHANGED tempVars
  /\ UNCHANGED msgVars
  /\ UNCHANGED syncVars

\* The local sell publishes its result.
SellProduces ==
  /\ path = "local"
  /\ sell.alive
  /\ sell.resultFile = NoFile
  /\ sell' = [sell EXCEPT !.resultFile = [key |-> "R", handle |-> "sell"]]
  /\ UNCHANGED <<pc, ret, cleared, path, net, token>>
  /\ UNCHANGED <<fieldVars, intrVars, txVars, iwsVars, errVars, finVars>>
  /\ UNCHANGED tempVars
  /\ UNCHANGED msgVars
  /\ UNCHANGED syncVars

\* The local sell ends.
SellDies ==
  /\ path = "local"
  /\ sell.alive
  /\ sell' = [sell EXCEPT !.alive = FALSE]
  /\ UNCHANGED <<pc, ret, cleared, path, net, token>>
  /\ UNCHANGED <<fieldVars, intrVars, txVars, iwsVars, errVars, finVars>>
  /\ UNCHANGED tempVars
  /\ UNCHANGED msgVars
  /\ UNCHANGED syncVars

\* doLocalBuy: the wait's predicate turns false, and the function returns.
LocalWaitEnds ==
  /\ pc = "localWait"
  /\ ~LocalWaitWhile(sell)
  /\ LET rf == LocalWaitResult(sell) IN
       IF rf = NoFile
         THEN /\ ret' = Fail(<<"SellNoResult">>)
              /\ UNCHANGED resultFile
         ELSE /\ ret' = [file |-> rf, err |-> NoErr]
              /\ resultFile' = rf
  /\ pc' = "record"
  /\ UNCHANGED <<alive, lastError, lastErrorWritten, workFile, localMatch,
                 buyerSecret, encResultFile, encResultKey, net, token>>
  /\ UNCHANGED <<localVars, intrVars, txVars, iwsVars, errVars, finVars>>
  /\ UNCHANGED tempVars
  /\ UNCHANGED msgVars
  /\ UNCHANGED syncVars

\* doLocalBuy: the wait reads the interrupt.
LocalWaitInterrupted ==
  /\ pc = "localWait"
  /\ interrupt = "pending"
  /\ interrupt' = "taken"
  /\ ret' = Fail(<<"LocalWait", "Interrupted">>)
  /\ pc' = "record"
  /\ UNCHANGED <<fieldVars, localVars, pushIntr, net, token>>
  /\ UNCHANGED <<txVars, iwsVars, errVars, finVars>>
  /\ UNCHANGED tempVars
  /\ UNCHANGED msgVars
  /\ UNCHANGED syncVars

\* PerformBuy: if err != nil { a.lastError = err }
RecordError ==
  /\ pc = "record"
  /\ IF ShouldRecord(ret.err)
       THEN lastError' = ret.err /\ lastErrorWritten' = TRUE
       ELSE UNCHANGED <<lastError, lastErrorWritten>>
  /\ pc' = "clearAlive"
  /\ UNCHANGED <<ret, alive, workFile, localMatch, resultFile, buyerSecret,
                 encResultFile, encResultKey, net, token>>
  /\ UNCHANGED <<localVars, intrVars, txVars, iwsVars, errVars, finVars>>
  /\ UNCHANGED tempVars
  /\ UNCHANGED msgVars
  /\ UNCHANGED syncVars

\* PerformBuy's deferred a.alive = false; then the call has returned.
ClearAlive ==
  /\ pc = "clearAlive"
  /\ alive' = FALSE
  /\ pc' = "done"
  /\ UNCHANGED <<ret, lastError, lastErrorWritten, workFile, localMatch,
                 resultFile, buyerSecret, encResultFile, encResultKey, net, token>>
  /\ UNCHANGED <<localVars, intrVars, txVars, iwsVars, errVars, finVars>>
  /\ UNCHANGED tempVars
  /\ UNCHANGED msgVars
  /\ UNCHANGED syncVars

\* The caller sends on the interrupt channel while the buy is in a blocking step.
BlockingSteps ==
  {"clearance", "localWait", "begin", "waitTransmitting", "chunkResp",
   "waitUnverified"}

SendInterrupt ==
  /\ interrupt = "idle"
  /\ pc \in BlockingSteps
  /\ interrupt' = "pending"
  /\ pushIntr' = (pc = "chunkResp")
  /\ UNCHANGED <<pc, ret, net, token>>
  /\ UNCHANGED <<fieldVars, localVars, txVars, iwsVars, errVars, finVars>>
  /\ UNCHANGED tempVars
  /\ UNCHANGED msgVars
  /\ UNCHANGED syncVars

(***************************************************************************)
(* doRemoteBuy up to the seller interaction.                               *)
(***************************************************************************)

\* beginRemoteTrade acquires the transmission token.
BeginRemoteTrade ==
  /\ pc = "begin"
  /\ token' = "held"
  /\ pc' = "secret"
  /\ UNCHANGED <<ret, net>>
  /\ UNCHANGED <<fieldVars, localVars, intrVars, txVars, iwsVars, errVars, finVars>>
  /\ UNCHANGED tempVars
  /\ UNCHANGED msgVars
  /\ UNCHANGED syncVars

\* beginRemoteTrade fails or reads the interrupt; only the deferred
\* returnTransmissionToken is pending.
BeginRemoteTradeFailed ==
  /\ pc = "begin"
  /\ \E e \in {<<"NoToken">>} \cup
               (IF interrupt = "pending" THEN {<<"Interrupted">>} ELSE {}) :
       /\ ret' = Fail(e)
       /\ interrupt' = IF e = <<"Interrupted">> THEN "taken" ELSE interrupt
  /\ pc' = DeferredAfter("begin")
  /\ UNCHANGED <<pushIntr, net, token>>
  /\ UNCHANGED <<fieldVars, localVars, txVars, iwsVars, errVars, finVars>>
  /\ UNCHANGED tempVars
  /\ UNCHANGED msgVars
  /\ UNCHANGED syncVars

\* io.ReadFull(rand.Reader, secret[:]); a.buyerSecret = &secret
DrawSecret ==
  /\ pc = "secret"
  /\ \E ok \in BOOLEAN :
       IF ok
         THEN /\ buyerSecret' \in Secrets
              /\ pc' = "startPoll"
              /\ UNCHANGED ret
         ELSE /\ ret' = Fail(<<"Rand">>)
              /\ pc' = DeferredAfter("secret")
              /\ UNCHANGED buyerSecret
  /\ UNCHANGED <<alive, lastError, lastErrorWritten, workFile, localMatch,
                 resultFile, encResultFile, encResultKey, net, token>>
  /\ UNCHANGED <<localVars, intrVars, txVars, iwsVars, errVars, finVars>>
  /\ UNCHANGED tempVars
  /\ UNCHANGED msgVars
  /\ UNCHANGED syncVars

\* go a.pollTransaction(log, abortPolling)
StartPolling ==
  /\ pc = "startPoll"
  /\ poller' = "running"
  /\ pc' = "establish"
  /\ UNCHANGED <<ret, tx, badSeen, waited, net, token>>
  /\ UNCHANGED <<fieldVars, localVars, intrVars, iwsVars, errVars, finVars>>
  /\ UNCHANGED tempVars
  /\ UNCHANGED msgVars
  /\ UNCHANGED syncVars

\* The poller refreshes the cached transaction.
PollTransaction ==
  /\ poller = "running"
  /\ \E u \in TxNext(tx) : tx' = u
  /\ UNCHANGED <<pc, ret, poller, badSeen, waited, net, token>>
  /\ UNCHANGED <<fieldVars, localVars, intrVars, iwsVars, errVars, finVars>>
  /\ UNCHANGED tempVars
  /\ UNCHANGED msgVars
  /\ UNCHANGED syncVars

\* SendTxMessageEstablishBuyer
EstablishBuyer ==
  /\ pc = "establish"
  /\ net' = net \cup {"EstablishBuyer"}
  /\ estMsg' = [workHash |-> workFile.key,
                workSecretHash |-> WorkSecretHash(workFile.key, buyerSecret)]
  /\ \E err \in {NoErr, <<"Coordinator">>} :
       /\ pc' = AfterEstablish(err)
       /\ ret' = IF err = NoErr THEN ret ELSE Fail(<<"Establish">> \o err)
  /\ UNCHANGED token
  /\ UNCHANGED <<fieldVars, localVars, intrVars, txVars, iwsVars, errVars, finVars>>
  /\ UNCHANGED tempVars
  /\ UNCHANGED <<form, answers>>
  /\ UNCHANGED syncVars

\* waitForTransactionPhase(Transmitting, Establishing, SellerEstablished,
\* BuyerEstablished): one evaluation of its predicate.
AwaitTransmitting ==
  /\ pc = "waitTransmitting"
  /\ waited' = waited \cup {"T"}
  /\ LET r == WaitForPhaseEval(tx, "Transmitting", EstablishingTransient)
         e == IF WaitError(r) = NoErr THEN NoErr
              ELSE <<"AwaitTransmitting">> \o WaitError(r)
     IN /\ badSeen' = IF LegalTx(tx, "Transmitting", EstablishingTransient)
                        THEN badSeen ELSE [badSeen EXCEPT !.T = tx]
        /\ IF r = "wait"
             THEN UNCHANGED <<pc, ret>>
             ELSE /\ pc' = AfterAwaitTransmitting(e)
                  /\ ret' = IF e = NoErr THEN ret ELSE Fail(e)
  /\ UNCHANGED <<tx, poller, net, token>>
  /\ UNCHANGED <<fieldVars, localVars, intrVars, iwsVars, errVars, finVars>>
  /\ UNCHANGED tempVars
  /\ UNCHANGED msgVars
  /\ UNCHANGED syncVars

(***************************************************************************)
(* interactWithSeller.                                                     *)
(***************************************************************************)

\* go a.watchdog(log, exitChan, connChan, predicate)
StartWatchdog ==
  /\ pc = "iwsWatchdog"
  /\ watchdog' = "running"
  /\ pc' = "iwsRegister"
  /\ UNCHANGED <<ret, st, probeResp, mode, iwsErr, assistNode, producer, net, token>>
  /\ UNCHANGED <<fieldVars, localVars, intrVars, txVars, errVars, finVars>>
  /\ UNCHANGED tempVars
  /\ UNCHANGED msgVars
  /\ UNCHANGED syncVars

\* st := NewScopedTransport(); connChan <- st.  The watchdog receives the
\* registration; one it receives after its predicate failed it closes at once.
RegisterTransport ==
  /\ pc = "iwsRegister"
  /\ watchdog \in {"running", "fired"}
  /\ st' = IF watchdog = "fired" THEN "closed" ELSE "open"
  /\ mode' = [chunked |-> FALSE, compressed |-> FALSE, legacy |-> TRUE]
  /\ pc' = IF workFile.chunked THEN "probe" ELSE "linearPost"
  /\ UNCHANGED <<ret, watchdog, probeResp, iwsErr, assistNode, producer, net, token>>
  /\ UNCHANGED <<fieldVars, localVars, intrVars, txVars, errVars, finVars>>
  /\ UNCHANGED tempVars
  /\ UNCHANGED msgVars
  /\ UNCHANGED syncVars

\* The watchdog finds its predicate false and closes what is registered.
WatchdogFires ==
  /\ watchdog = "running"
  /\ ~WatchdogOK(tx)
  /\ watchdog' = "fired"
  /\ st' = IF st = "open" THEN "closed" ELSE st
  /\ UNCHANGED <<pc, ret, probeResp, mode, iwsErr, assistNode, producer, net, token>>
  /\ UNCHANGED <<fieldVars, localVars, intrVars, txVars, errVars, finVars>>
  /\ UNCHANGED tempVars
  /\ UNCHANGED msgVars
  /\ UNCHANGED syncVars

\* testSellerForCapabilities and the choice of chunked, compressed, legacy.
ProbeSeller ==
  /\ pc = "probe"
  /\ net' = net \cup {"OPTIONS"}
  /\ \E r \in ProbeResponses :
       /\ st = "closed" => r.kind = "transportError"
       /\ probeResp' = r
       /\ mode' = Negotiate(TestSellerForCapabilities(r))
       /\ pc' = IF Negotiate(TestSellerForCapabilities(r)).chunked
                  THEN "chunkCheck" ELSE "linearPost"
  /\ UNCHANGED <<ret, watchdog, st, iwsErr, assistNode, producer, token>>
  /\ UNCHANGED <<fieldVars, localVars, intrVars, txVars, errVars, finVars>>
  /\ UNCHANGED tempVars
  /\ UNCHANGED msgVars
  /\ UNCHANGED syncVars

\* transmitWorkLinear: the producer goroutine is started and the POST is
\* answered.
TransmitWorkLinear ==
  /\ pc = "linearPost"
  /\ net' = net \cup {"LinearPost"}
  /\ \E o \in SellerOutcomes(st) :
       /\ answers' = [answers EXCEPT !["LinearPost"] = o]
       /\ IF PostError(o) = NoErr
            THEN pc' = "copy" /\ UNCHANGED iwsErr
            ELSE pc' = "iwsClose" /\ iwsErr' = PostError(o)
  /\ producer' = "sending"
  /\ form' = <<[name |-> "work", value |-> workFile.key], SecretField(buyerSecret)>>
  /\ UNCHANGED <<ret, watchdog, st, probeResp, mode, assistNode, token>>
  /\ UNCHANGED <<fieldVars, localVars, intrVars, txVars, errVars, finVars>>
  /\ UNCHANGED tempVars
  /\ UNCHANGED estMsg
  /\ UNCHANGED syncVars

\* transmitWorkChunked: the bound on the number of chunks, and InitNode in
\* modern mode.
CheckChunkCount ==
  /\ pc = "chunkCheck"
  /\ IF TooManyChunks(workFile.numChunks)
       THEN /\ iwsErr' = <<"WorkTooLarge">>
            /\ pc' = "iwsClose"
            /\ UNCHANGED assistNode
       ELSE /\ assistNode' = IF mode.legacy THEN assistNode ELSE "registered"
            /\ pc' = "wishlist"
            /\ UNCHANGED iwsErr
  /\ LET si == [chunksOf |-> workFile.key, perm |-> Permutation(mode.legacy)] IN
       IF TooManyChunks(workFile.numChunks)
         THEN UNCHANGED <<syncinfo, nodeKey>>
         ELSE /\ syncinfo' = si
              /\ nodeKey' = IF mode.legacy THEN nodeKey
                            ELSE HandprintFromSyncInfo(si)
  /\ UNCHANGED <<ret, watchdog, st, probeResp, mode, producer, net, token>>
  /\ UNCHANGED <<fieldVars, localVars, intrVars, txVars, errVars, finVars>>
  /\ UNCHANGED tempVars
  /\ UNCHANGED msgVars
  /\ UNCHANGED <<interestCall, ticketCall>>

\* assist.Tickets.ExitNode, deferred by transmitWorkChunked in modern mode.
ExitNode(n) == IF n = "registered" THEN "exited" ELSE n

\* The assist.HeaderName header of the wishlist answer: absent, or a list of
\* tickets.
TicketHeaders == {"absent", "tickets"}

\* receiveAssistiveDownloadTickets: with a header, every ticket goes to
\* assist.Tickets.NewTicket(ticket, sellerId), whatever the mode. The result
\* is the state of our node at that call, or "none" when no call is made.
ReceiveAssistiveDownloadTickets(header, node) ==
  IF header = "absent" THEN "none"
  ELSE IF node = "none" THEN "noNode"
  ELSE node

\* requestMissingChunks: the wishlist POST and, once it is answered with 200,
\* receiveAssistiveDownloadTickets.
RequestMissingChunks ==
  /\ pc = "wishlist"
  /\ net' = net \cup {"WishlistPost"}
  /\ \E o \in SellerOutcomes(st) :
       /\ answers' = [answers EXCEPT !["WishlistPost"] = o]
       /\ pc' = AfterWishlist(PostError(o))
       /\ IF PostError(o) = NoErr
            THEN /\ UNCHANGED <<iwsErr, assistNode>>
                 /\ \E header \in TicketHeaders :
                      ticketCall' = ReceiveAssistiveDownloadTickets(header, assistNode)
            ELSE /\ iwsErr' = <<"Chunked", "SyncData">> \o PostError(o)
                 /\ assistNode' = ExitNode(assistNode)
                 /\ UNCHANGED ticketCall
  /\ form' = <<SyncInfoField(mode.legacy, syncinfo), SecretField(buyerSecret)>>
  /\ UNCHANGED <<ret, watchdog, st, probeResp, mode, producer, token>>
  /\ UNCHANGED <<fieldVars, localVars, intrVars, txVars, errVars, finVars>>
  /\ UNCHANGED tempVars
  /\ UNCHANGED estMsg
  /\ UNCHANGED <<syncinfo, nodeKey, interestCall>>

\* The registry hands our node a ticket: the callback given to InitNode starts
\* postAssistiveDownloadTicketToSeller, which posts it and only logs an error.
PostAssistiveDownloadTicket ==
  /\ assistNode \in {"registered", "exited"}
  /\ answers["AssistPost"] = "none"
  /\ net' = net \cup {"AssistPost"}
  /\ \E o \in SellerOutcomes(st) : answers' = [answers EXCEPT !["AssistPost"] = o]
  /\ UNCHANGED <<pc, ret, token, estMsg, form>>
  /\ UNCHANGED <<fieldVars, localVars, intrVars, txVars, iwsVars, errVars, finVars>>
  /\ UNCHANGED tempVars
  /\ UNCHANGED syncVars

\* sendMissingChunksAndReturnResult: the producer goroutine is started and
\* the chunk-body POST is issued.
SendMissingChunks ==
  /\ pc = "chunkPost"
  /\ net' = net \cup {"ChunkPost"}
  /\ producer' = "sending"
  /\ pc' = "chunkResp"
  /\ UNCHANGED <<ret, watchdog, st, probeResp, mode, iwsErr, assistNode, token>>
  /\ UNCHANGED <<fieldVars, localVars, intrVars, txVars, errVars, finVars>>
  /\ UNCHANGED tempVars
  /\ UNCHANGED msgVars
  /\ UNCHANGED syncVars

\* The chunk-body POST is answered; transmitWorkChunked returns.
ChunkResponse ==
  /\ pc = "chunkResp"
  /\ \E o \in SellerOutcomes(st) :
       /\ producer = "failed" => o = "transportError"
       /\ answers' = [answers EXCEPT !["ChunkPost"] = o]
       /\ IF PostError(o) = NoErr
            THEN pc' = "copy" /\ UNCHANGED iwsErr
            ELSE pc' = "iwsClose" /\ iwsErr' = <<"ChunkData">> \o PostError(o)
  /\ assistNode' = ExitNode(assistNode)
  /\ UNCHANGED <<ret, watchdog, st, probeResp, mode, producer, net, token>>
  /\ UNCHANGED <<fieldVars, localVars, intrVars, txVars, errVars, finVars>>
  /\ UNCHANGED tempVars
  /\ UNCHANGED <<estMsg, form>>
  /\ UNCHANGED syncVars

\* The producer goroutine of the work body or of the chunk body: once the data
\* is written it returns the transmission token, then it finishes.
ProducerNextSkipping(p) ==
  CASE p = "sending" -> "done"
    [] OTHER -> p

ProducerNext(p) ==
  CASE p = "sending" -> "tokenBack"
    [] p = "tokenBack" -> "done"
    [] OTHER -> p

\* The producer has written the work file (linear), or all chunk data and
\* closed the pipe (chunked): a.returnTransmissionToken().
ProducerReturnsToken ==
  /\ producer = "sending"
  /\ producer' = ProducerNext(producer)
  /\ token' = IF ProducerNext(producer) = "tokenBack" /\ token = "held"
                THEN "returned" ELSE token
  /\ UNCHANGED <<pc, ret, watchdog, st, probeResp, mode, iwsErr, assistNode, net>>
  /\ UNCHANGED <<fieldVars, localVars, intrVars, txVars, errVars, finVars>>
  /\ UNCHANGED tempVars
  /\ UNCHANGED msgVars
  /\ UNCHANGED syncVars

\* The producer finishes: the chunked one calls
\* assist.Tickets.SetNodeInterested(a.mustGetSellerId(), false), whatever the
\* mode; the linear one writes the secret and closes the body.
ProducerDone ==
  /\ producer = "tokenBack"
  /\ producer' = ProducerNext(producer)
  /\ interestCall' = IF "ChunkPost" \notin net THEN interestCall
                     ELSE IF assistNode = "none" THEN "noNode"
                     ELSE assistNode
  /\ UNCHANGED <<pc, ret, watchdog, st, probeResp, mode, iwsErr, assistNode, net,
                 token>>
  /\ UNCHANGED <<fieldVars, localVars, intrVars, txVars, errVars, finVars>>
  /\ UNCHANGED tempVars
  /\ UNCHANGED msgVars
  /\ UNCHANGED <<syncinfo, nodeKey, ticketCall>>

\* The producer goroutine fails and closes the pipe with its error: while it
\* writes the data, or (linear) while it writes the secret and closes.
ProducerFails ==
  /\ \/ producer = "sending"
     \/ producer = "tokenBack" /\ "LinearPost" \in net
  /\ producer' = "failed"
  /\ UNCHANGED <<pc, ret, watchdog, st, probeResp, mode, iwsErr, assistNode, net,
                 token>>
  /\ UNCHANGED <<fieldVars, localVars, intrVars, txVars, errVars, finVars>>
  /\ UNCHANGED tempVars
  /\ UNCHANGED msgVars
  /\ UNCHANGED syncVars

\* temp := storage.Create(...); io.Copy(temp, response); response.Close();
\* temp.Close()
CopyResult ==
  /\ pc = "copy"
  /\ \E ok \in BOOLEAN :
       /\ st = "closed" => ~ok
       /\ IF ok
            THEN pc' = "publish" /\ encTemp' = "closed" /\ UNCHANGED iwsErr
            ELSE pc' = "iwsClose" /\ encTemp' = "open" /\ iwsErr' = <<"Copy">>
  /\ UNCHANGED <<ret, watchdog, st, probeResp, mode, assistNode, producer, net,
                 token>>
  /\ UNCHANGED <<fieldVars, localVars, intrVars, txVars, errVars, finVars>>
  /\ UNCHANGED decTemp
  /\ UNCHANGED msgVars
  /\ UNCHANGED syncVars

\* a.encResultFile = temp.File()
PublishEncResult ==
  /\ pc = "publish"
  /\ encResultFile' = [key |-> "E", handle |-> "buy"]
  /\ pc' = "receipt"
  /\ UNCHANGED <<ret, alive, lastError, lastErrorWritten, workFile, localMatch,
                 resultFile, buyerSecret, encResultKey, net, token>>
  /\ UNCHANGED <<localVars, intrVars, txVars, iwsVars, errVars, finVars>>
  /\ UNCHANGED tempVars
  /\ UNCHANGED msgVars
  /\ UNCHANGED syncVars

\* signReceipt: sign the hash of the encrypted result and post the receipt.
SignReceipt ==
  /\ pc = "receipt"
  /\ \E o \in SellerOutcomes(st) \cup {"signError"} :
       IF o = "signError"
         THEN iwsErr' = <<"SignReceipt", "Sign">> /\ UNCHANGED <<net, answers>>
         ELSE /\ net' = net \cup {"ReceiptPost"}
              /\ answers' = [answers EXCEPT !["ReceiptPost"] = o]
              /\ iwsErr' = IF PostError(o) = NoErr THEN NoErr
                           ELSE <<"SignReceipt">> \o PostError(o)
  /\ pc' = "iwsClose"
  /\ UNCHANGED <<ret, watchdog, st, probeResp, mode, assistNode, producer, token>>
  /\ UNCHANGED <<fieldVars, localVars, intrVars, txVars, errVars, finVars>>
  /\ UNCHANGED tempVars
  /\ UNCHANGED <<estMsg, form>>
  /\ UNCHANGED syncVars

\* The deferred temp.Dispose(), response.Close() and st.Close().
CloseTransport ==
  /\ pc = "iwsClose"
  /\ encTemp' = Dispose(encTemp)
  /\ st' = "closed"
  /\ pc' = "iwsExit"
  /\ UNCHANGED <<ret, watchdog, probeResp, mode, iwsErr, assistNode, producer, net,
                 token>>
  /\ UNCHANGED <<fieldVars, localVars, intrVars, txVars, errVars, finVars>>
  /\ UNCHANGED decTemp
  /\ UNCHANGED msgVars
  /\ UNCHANGED syncVars

\* The deferred exitChan <- true, received by the watchdog; interactWithSeller
\* returns and doRemoteBuy wraps its error.
ExitWatchdog ==
  /\ pc = "iwsExit"
  /\ watchdog \in {"running", "fired"}
  /\ watchdog' = "exited"
  /\ sellerErr' = IF iwsErr = NoErr THEN NoErr ELSE <<"Transmitting">> \o iwsErr
  /\ pc' = "waitUnverified"
  /\ UNCHANGED <<ret, st, probeResp, mode, iwsErr, assistNode, producer, phaseErr,
                 net, token>>
  /\ UNCHANGED <<fieldVars, localVars, intrVars, txVars, finVars>>
  /\ UNCHANGED tempVars
  /\ UNCHANGED msgVars
  /\ UNCHANGED syncVars

(***************************************************************************)
(* doRemoteBuy after the seller interaction.                               *)
(***************************************************************************)

\* waitForTransactionPhase(Unverified, Transmitting, Working): one evaluation
\* of its predicate.
AwaitUnverified ==
  /\ pc = "waitUnverified"
  /\ waited' = waited \cup {"U"}
  /\ LET r == WaitForPhaseEval(tx, "Unverified", TransmittingTransient)
     IN /\ badSeen' = IF LegalTx(tx, "Unverified", TransmittingTransient)
                        THEN badSeen ELSE [badSeen EXCEPT !.U = tx]
        /\ IF r = "wait"
             THEN UNCHANGED <<pc, phaseErr>>
             ELSE /\ pc' = "combine"
                  /\ phaseErr' = IF WaitError(r) = NoErr THEN NoErr
                                 ELSE <<"AwaitUnverified">> \o WaitError(r)
  /\ UNCHANGED <<ret, sellerErr, tx, poller, net, token>>
  /\ UNCHANGED <<fieldVars, localVars, intrVars, iwsVars, finVars>>
  /\ UNCHANGED tempVars
  /\ UNCHANGED msgVars
  /\ UNCHANGED syncVars

\* The four cases on sellerErr and phaseErr.
CombineOutcome ==
  /\ pc = "combine"
  /\ IF CombineErrors(sellerErr, phaseErr) = NoErr
       THEN pc' = "captureKey" /\ UNCHANGED ret
       ELSE pc' = "abortPoll" /\ ret' = Fail(CombineErrors(sellerErr, phaseErr))
  /\ UNCHANGED <<net, token>>
  /\ UNCHANGED <<fieldVars, localVars, intrVars, txVars, iwsVars, errVars, finVars>>
  /\ UNCHANGED tempVars
  /\ UNCHANGED msgVars
  /\ UNCHANGED syncVars

\* a.encResultKey = a.tx.ResultDecryptionKey
CaptureKey ==
  /\ pc = "captureKey"
  /\ encResultKey' = ResultDecryptionKey(tx)
  /\ pc' = "decrypt"
  /\ UNCHANGED <<ret, alive, lastError, lastErrorWritten, workFile, localMatch,
                 resultFile, buyerSecret, encResultFile, net, token>>
  /\ UNCHANGED <<localVars, intrVars, txVars, iwsVars, errVars, finVars>>
  /\ UNCHANGED tempVars
  /\ UNCHANGED msgVars
  /\ UNCHANGED syncVars

\* decryptResult: the cipher is made from the key, then the temporary is
\* created, filled and closed, and disposed of by the deferred Dispose.
DecryptResult ==
  /\ pc = "decrypt"
  /\ \E o \in {"ok", "cipherError", "copyError"} :
       /\ decTemp' = CASE o = "ok" -> Dispose("closed")
                        [] o = "copyError" -> Dispose("open")
                        [] OTHER -> decTemp
       /\ IF o = "ok"
            THEN /\ resultFile' = [key |-> "P", handle |-> "buy"]
                 /\ pc' = "spawnFin"
                 /\ UNCHANGED ret
            ELSE /\ ret' = Fail(<<"Decrypt", "Crypto">>)
                 /\ pc' = "abortPoll"
                 /\ UNCHANGED resultFile
  /\ UNCHANGED <<alive, lastError, lastErrorWritten, workFile, localMatch,
                 buyerSecret, encResultFile, encResultKey, net, token>>
  /\ UNCHANGED <<localVars, intrVars, txVars, iwsVars, errVars, finVars>>
  /\ UNCHANGED encTemp
  /\ UNCHANGED msgVars
  /\ UNCHANGED syncVars

\* go a.finishBuy(log); return a.resultFile, nil
SpawnFinalizer ==
  /\ pc = "spawnFin"
  /\ fin' = "startPoll"
  /\ ret' = [file |-> resultFile, err |-> NoErr]
  /\ pc' = "abortPoll"
  /\ UNCHANGED <<finPoller, net, token>>
  /\ UNCHANGED <<fieldVars, localVars, intrVars, txVars, iwsVars, errVars>>
  /\ UNCHANGED tempVars
  /\ UNCHANGED msgVars
  /\ UNCHANGED syncVars

\* The poller gives up on a transaction that is no longer active; it still
\* takes the abort signal.
PollerGivesUp ==
  /\ poller = "running"
  /\ tx.state # "Active"
  /\ poller' = "gaveUp"
  /\ UNCHANGED <<pc, ret, tx, badSeen, waited, net, token>>
  /\ UNCHANGED <<fieldVars, localVars, intrVars, iwsVars, errVars, finVars>>
  /\ UNCHANGED tempVars
  /\ UNCHANGED msgVars
  /\ UNCHANGED syncVars

\* The deferred abortPolling <- true, received by the poller.
AbortPolling ==
  /\ pc = "abortPoll"
  /\ poller \in {"running", "gaveUp"}
  /\ poller' = "stopped"
  /\ pc' = "returnToken"
  /\ UNCHANGED <<ret, tx, badSeen, waited, net, token>>
  /\ UNCHANGED <<fieldVars, localVars, intrVars, iwsVars, errVars, finVars>>
  /\ UNCHANGED tempVars
  /\ UNCHANGED msgVars
  /\ UNCHANGED syncVars

\* The deferred a.returnTransmissionToken(); doRemoteBuy returns.
ReturnToken ==
  /\ pc = "returnToken"
  /\ token' = IF token = "held" THEN "returned" ELSE token
  /\ pc' = "record"
  /\ UNCHANGED <<ret, net>>
  /\ UNCHANGED <<fieldVars, localVars, intrVars, txVars, iwsVars, errVars, finVars>>
  /\ UNCHANGED tempVars
  /\ UNCHANGED msgVars
  /\ UNCHANGED syncVars

(***************************************************************************)
(* finishBuy, in its own goroutine.                                        *)
(***************************************************************************)

\* go a.pollTransaction(log, abortPolling)
FinStartPolling ==
  /\ fin = "startPoll"
  /\ finPoller' = "running"
  /\ fin' = "accept"
  /\ UNCHANGED <<pc, ret, net, token>>
  /\ UNCHANGED <<fieldVars, localVars, intrVars, txVars, iwsVars, errVars>>
  /\ UNCHANGED tempVars
  /\ UNCHANGED msgVars
  /\ UNCHANGED syncVars

\* finishBuy's poller refreshes the cached transaction.
FinPollTransaction ==
  /\ finPoller = "running"
  /\ \E u \in TxNext(tx) : tx' = u
  /\ UNCHANGED <<pc, ret, poller, badSeen, waited, net, token>>
  /\ UNCHANGED <<fieldVars, localVars, intrVars, iwsVars, errVars, finVars>>
  /\ UNCHANGED tempVars
  /\ UNCHANGED msgVars
  /\ UNCHANGED syncVars

\* SendTxMessageAcceptResult
FinAcceptResult ==
  /\ fin = "accept"
  /\ net' = net \cup {"AcceptResult"}
  /\ \E ok \in BOOLEAN : fin' = IF ok THEN "wait" ELSE "failedAbort"
  /\ UNCHANGED <<pc, ret, finPoller, token>>
  /\ UNCHANGED <<fieldVars, localVars, intrVars, txVars, iwsVars, errVars>>
  /\ UNCHANGED tempVars
  /\ UNCHANGED msgVars
  /\ UNCHANGED syncVars

\* a.waitWhile(tx.State == StateActive) ends.
FinWaitEnds ==
  /\ fin = "wait"
  /\ tx.state # "Active"
  /\ fin' = "clearAlive"
  /\ UNCHANGED <<pc, ret, finPoller, net, token>>
  /\ UNCHANGED <<fieldVars, localVars, intrVars, txVars, iwsVars, errVars>>
  /\ UNCHANGED tempVars
  /\ UNCHANGED msgVars
  /\ UNCHANGED syncVars

\* a.alive = false
FinClearAlive ==
  /\ fin = "clearAlive"
  /\ alive' = FALSE
  /\ fin' = "abortPoll"
  /\ UNCHANGED <<pc, ret, lastError, lastErrorWritten, workFile, localMatch,
                 resultFile, buyerSecret, encResultFile, encResultKey, finPoller,
                 net, token>>
  /\ UNCHANGED <<localVars, intrVars, txVars, iwsVars, errVars>>
  /\ UNCHANGED tempVars
  /\ UNCHANGED msgVars
  /\ UNCHANGED syncVars

\* finishBuy's poller gives up on a transaction that is no longer active.
FinPollerGivesUp ==
  /\ finPoller = "running"
  /\ tx.state # "Active"
  /\ finPoller' = "gaveUp"
  /\ UNCHANGED <<pc, ret, fin, net, token>>
  /\ UNCHANGED <<fieldVars, localVars, intrVars, txVars, iwsVars, errVars>>
  /\ UNCHANGED tempVars
  /\ UNCHANGED msgVars
  /\ UNCHANGED syncVars

\* The deferred abortPolling <- true, received by finishBuy's poller.
FinAbortPolling ==
  /\ fin \in {"abortPoll", "failedAbort"}
  /\ finPoller \in {"running", "gaveUp"}
  /\ finPoller' = "stopped"
  /\ fin' = IF fin = "abortPoll" THEN "done" ELSE "failed"
  /\ UNCHANGED <<pc, ret, net, token>>
  /\ UNCHANGED <<fieldVars, localVars, intrVars, txVars, iwsVars, errVars>>
  /\ UNCHANGED tempVars
  /\ UNCHANGED msgVars
  /\ UNCHANGED syncVars

Next ==
  \/ TakeWorkFile
  \/ ClearanceGranted
  \/ ClearanceFailed
  \/ SellProduces
  \/ SellDies
  \/ LocalWaitEnds
  \/ LocalWaitInterrupted
  \/ RecordError
  \/ ClearAlive
  \/ SendInterrupt
  \/ BeginRemoteTrade
  \/ BeginRemoteTradeFailed
  \/ DrawSecret
  \/ StartPolling
  \/ PollTransaction
  \/ EstablishBuyer
  \/ AwaitTransmitting
  \/ StartWatchdog
  \/ RegisterTransport
  \/ WatchdogFires
  \/ ProbeSeller
  \/ TransmitWorkLinear
  \/ CheckChunkCount
  \/ RequestMissingChunks
  \/ PostAssistiveDownloadTicket
  \/ SendMissingChunks
  \/ ChunkResponse
  \/ ProducerReturnsToken
  \/ ProducerDone
  \/ ProducerFails
  \/ CopyResult
  \/ PublishEncResult
  \/ SignReceipt
  \/ CloseTransport
  \/ ExitWatchdog
  \/ AwaitUnverified
  \/ CombineOutcome
  \/ CaptureKey
  \/ DecryptResult
  \/ SpawnFinalizer
  \/ PollerGivesUp
  \/ AbortPolling
  \/ ReturnToken
  \/ FinStartPolling
  \/ FinPollTransaction
  \/ FinAcceptResult
  \/ FinWaitEnds
  \/ FinClearAlive
  \/ FinPollerGivesUp
  \/ FinAbortPolling

Spec == Init /\ [][Next]_vars

\* The watchdog and the pollers are goroutines of their own: the scheduler
\* runs them whenever they can take a step.
FairSpec == Spec /\ WF_vars(WatchdogFires)

\* The steps of the driver goroutine that hand over to the watchdog or to the
\* poller, and the deferred calls after them.
DriverStops ==
  \/ RegisterTransport
  \/ ExitWatchdog
  \/ AbortPolling
  \/ ReturnToken
  \/ RecordError
  \/ ClearAlive

\* The steps of the finalizer goroutine after AcceptResult.
FinStops ==
  \/ FinWaitEnds
  \/ FinClearAlive
  \/ FinAbortPolling

\* The driver and the finalizer are goroutines too: a step of theirs that can
\* be taken, such as a send that has a receiver, is taken.
HandshakeSpec == Spec /\ WF_vars(DriverStops) /\ WF_vars(FinStops)

(***************************************************************************)
(* Properties.                                                             *)
(***************************************************************************)

SellerRequests == {"OPTIONS", "LinearPost", "WishlistPost", "ChunkPost", "ReceiptPost"}

\* The driver has left doPerformBuy.
Returning == pc \in {"record", "clearAlive", "done"}

\* C1: once clearance has succeeded the buy is on exactly one path, the local
\* one iff a local sell is bound; on the local path nothing touches the
\* network (no token, no poller, no coordinator message, no seller request,
\* no finalizer); when clearance fails no path is entered and PerformBuy
\* returns the clearance error.
C1_LocalXorRemote ==
  /\ cleared = "ok" => path \in {"local", "remote"}
  /\ path = "local" <=> (cleared = "ok" /\ localMatch)
  /\ path = "remote" <=> (cleared = "ok" /\ ~localMatch)
  /\ path = "local" =>
       /\ net = {}
       /\ token = "none"
       /\ poller = "off" /\ finPoller = "off" /\ fin = "none"
       /\ watchdog = "none" /\ st = "none" /\ producer = "none"
       /\ pc \in {"localWait", "record", "clearAlive", "done"}
  /\ cleared = "failed" =>
       /\ path = "none" /\ net = {} /\ token = "none" /\ poller = "off"
       /\ Returning
       /\ ret.file = NoFile
       /\ ret.err \in {<<"ClearanceDenied">>, <<"Interrupted">>}

C1_Witness ==
  /\ pc = "done"
  /\ path = "local"
  /\ localMatch
  /\ ret.err = NoErr

\* C2: the local wait goes on while the sell is alive without a result; when
\* it ends uninterrupted, a sell with a result (alive or not) gives the buy a
\* duplicate of that result as its resultFile and return value, and a sell
\* that died without one makes the buy fail with the no-result error, its
\* resultFile unset.
C2_LocalOutcome ==
  (path = "local" /\ Returning /\ ret.err # <<"LocalWait", "Interrupted">>) =>
    /\ ~(sell.alive /\ sell.resultFile = NoFile)
    /\ sell.resultFile # NoFile =>
         /\ ret.err = NoErr
         /\ ret.file = resultFile
         /\ resultFile.key = sell.resultFile.key
         /\ resultFile.handle # sell.resultFile.handle
    /\ sell.resultFile = NoFile =>
         /\ ret.err = <<"SellNoResult">>
         /\ ret.file = NoFile
         /\ resultFile = NoFile

C2_Witness ==
  /\ pc = "done"
  /\ path = "local"
  /\ sell.alive
  /\ resultFile = [key |-> "R", handle |-> "buy"]
  /\ ret.file = resultFile

\* C3: when PerformBuy has returned an error, lastError is that error and
\* alive is false; when it has returned a file, the call did not write
\* lastError.
C3_LastErrorOnReturn ==
  pc = "done" =>
    /\ ~alive
    /\ ret.err # NoErr =>
         lastError = ret.err /\ lastErrorWritten /\ ret.file = NoFile
    /\ ret.err = NoErr =>
         ~lastErrorWritten /\ lastError = NoErr /\ ret.file # NoFile

C3_Witness ==
  /\ pc = "done"
  /\ path = "remote"
  /\ sellerErr # NoErr
  /\ lastError = ret.err
  /\ ret.err # NoErr

\* The driver is past a successful wait for phase Transmitting.
InteractionEntered == watchdog # "none" \/ pc = "iwsWatchdog"

\* C4: a phase wait that saw a transaction outside its target and transient
\* phases, or a retired one, does not succeed.  When the wait for Transmitting
\* sees such a transaction (phase Finished, say) the buy fails with the phase
\* error of that wait and the seller interaction is never entered.
C4_PhaseWait ==
  /\ badSeen.T # NoTx =>
       /\ ~InteractionEntered
       /\ st = "none"
       /\ net \cap SellerRequests = {}
       /\ pc \in {"abortPoll", "returnToken", "record", "clearAlive", "done"}
       /\ ret.file = NoFile
       /\ ret.err = <<"AwaitTransmitting">> \o
                      (IF badSeen.T.state = "Active"
                         THEN <<"PhaseViolation">> ELSE <<"TxExpired">>)
  /\ badSeen.U # NoTx =>
       /\ pc \notin {"captureKey", "decrypt", "spawnFin"}
       /\ fin = "none"
       /\ resultFile = NoFile
       /\ phaseErr = <<"AwaitUnverified">> \o
                       (IF badSeen.U.state = "Active"
                          THEN <<"PhaseViolation">> ELSE <<"TxExpired">>)

C4_Witness ==
  /\ pc = "done"
  /\ badSeen.T = [state |-> "Active", phase |-> "Finished"]
  /\ ret.err = <<"AwaitTransmitting", "PhaseViolation">>

\* C5: once the seller interaction was entered, the buy does not return
\* without having carried out the wait for phase Unverified, whether or not
\* the interaction failed; it goes on to decryption iff both succeeded, and
\* otherwise returns the phase error, the seller error, or one error made of
\* both.
C5_TransmittingOutcome ==
  /\ (InteractionEntered /\ pc \in {"abortPoll", "returnToken", "record",
                                    "clearAlive", "done"}) =>
       /\ "U" \in waited
       /\ (sellerErr = NoErr /\ phaseErr = NoErr) =>
            (ret.err = NoErr \/ ret.err = <<"Decrypt", "Crypto">>)
       /\ (sellerErr = NoErr /\ phaseErr # NoErr) => ret.err = phaseErr
       /\ (sellerErr # NoErr /\ phaseErr = NoErr) => ret.err = sellerErr
       /\ (sellerErr # NoErr /\ phaseErr # NoErr) =>
            ret.err = phaseErr \o <<"Additionally">> \o sellerErr
  /\ pc \in {"captureKey", "decrypt", "spawnFin"} =>
       sellerErr = NoErr /\ phaseErr = NoErr /\ "U" \in waited
  /\ "U" \in waited => watchdog = "exited"

C5_Witness ==
  /\ pc = "done"
  /\ sellerErr # NoErr
  /\ phaseErr # NoErr
  /\ ret.err = phaseErr \o <<"Additionally">> \o sellerErr

\* The steps of interactWithSeller that talk to the seller.
SellerIOSteps ==
  {"probe", "linearPost", "chunkCheck", "wishlist", "chunkPost", "chunkResp",
   "copy", "publish", "receipt"}

\* The phase window of the transfer, as the claim states it.
InPhaseWindow ==
  /\ tx.state = "Active"
  /\ tx.phase \in {"SellerEstablished", "Transmitting", "Working"}

C6_Scoped ==
  /\ pc \in SellerIOSteps => (st # "none" /\ watchdog \in {"running", "fired"})
  /\ net \cap SellerRequests # {} => st # "none"
  /\ (watchdog = "fired" /\ pc # "iwsRegister") => st = "closed"
  /\ (st = "open" /\ ~InPhaseWindow) => watchdog = "running"

C6_Aborts ==
  (/\ st = "closed"
   /\ pc \in {"linearPost", "wishlist", "chunkResp", "copy", "receipt"}
   /\ pc' # pc)
    => (pc' = "iwsClose" /\ iwsErr' # NoErr)

\* C6: every seller request of interactWithSeller is made while the scoped
\* transport exists and is registered with the running watchdog; whenever the
\* transaction is outside the phase window (not Active, or its phase not among
\* SellerEstablished, Transmitting, Working) an open transport gets closed, a
\* transport registered after the watchdog fired is closed at once, and a
\* request on the closed transport can only fail.
C6_ScopedTransport ==
  /\ []C6_Scoped
  /\ [][C6_Aborts]_vars
  /\ ((st = "open" /\ ~InPhaseWindow) ~> (st = "closed"))

C6_Witness ==
  /\ pc = "chunkResp"
  /\ watchdog = "fired"
  /\ st = "closed"
  /\ tx.state = "Retired"
  /\ tx.phase = "Transmitting"

\* C7: an interrupt sent while the chunk body push is in flight aborts the buy
\* at its next suspension point: the buy does not go on to decryption, and
\* PerformBuy returns an Interrupted error.
C7_InterruptAborts ==
  pushIntr =>
    /\ pc \notin {"captureKey", "decrypt", "spawnFin"}
    /\ pc = "done" =>
         (ret.err # NoErr /\ ret.err[Len(ret.err)] = "Interrupted")

\* C8: after a successful remote buy the activity stays alive from the return
\* of the result until the finalizer has seen the transaction leave Active.
C8_AliveUntilFinalized ==
  (/\ pc = "done"
   /\ path = "remote"
   /\ ret.err = NoErr
   /\ fin \in {"startPoll", "accept", "wait"})
    => alive

\* The probe was answered with status 200 and a decodable body.
ProbeUsable(r) == r.kind = "http" /\ r.status = StatusOK /\ r.decodable

\* interactWithSeller has chosen chunked, compressed and legacy.
PastProbe == st # "none" /\ pc # "probe"

\* C9: the capability probe is sent only for a chunked work file; a probe that
\* fails in transport, is answered with a status other than 200 or with an
\* undecodable body leaves all capabilities false, is not returned as an error
\* and puts the buy on the linear path; the chunked path is taken iff the file
\* is chunked and a usable answer reports Adler32Chunking; legacy mode is in
\* force iff no usable answer reports SyncInfo.
C9_CapabilityProbe ==
  /\ "OPTIONS" \in net => workFile.chunked
  /\ "OPTIONS" \in net <=> probeResp # NoProbe
  /\ PastProbe =>
       /\ workFile.chunked => "OPTIONS" \in net
       /\ mode.chunked <=>
            (workFile.chunked /\ ProbeUsable(probeResp) /\ probeResp.caps.chunked)
       /\ mode.legacy <=> ~(ProbeUsable(probeResp) /\ probeResp.caps.syncInfo)
       /\ ~ProbeUsable(probeResp) =>
            mode = [chunked |-> FALSE, compressed |-> FALSE, legacy |-> TRUE]
       /\ ~mode.chunked =>
            /\ pc = "linearPost" \/ "LinearPost" \in net
            /\ net \cap {"WishlistPost", "ChunkPost"} = {}
            /\ iwsErr \notin {<<"Decode">>, <<"WorkTooLarge">>}
       /\ mode.chunked =>
            /\ pc # "linearPost"
            /\ "LinearPost" \notin net

C9_Witness ==
  /\ pc = "done"
  /\ probeResp.kind = "http"
  /\ probeResp.status = StatusBad
  /\ "LinearPost" \in net
  /\ ret.err = NoErr

\* C10: on the chunked path a work file with more chunks than
\* MaxNumberOfChunksInWorkFile fails with the work-too-large error before any
\* wishlist or chunk POST, any registration in the ticket registry and any
\* published encResultFile; a file with exactly that many chunks goes on to the
\* wishlist request.
C10_ChunkBound ==
  /\ (mode.chunked /\ workFile.numChunks > MaxNumberOfChunksInWorkFile) =>
       /\ net \cap {"WishlistPost", "ChunkPost", "ReceiptPost"} = {}
       /\ assistNode = "none"
       /\ producer = "none"
       /\ encResultFile = NoFile
       /\ pc # "chunkCheck" => iwsErr = <<"WorkTooLarge">>
       /\ Returning => ret.err # NoErr
  /\ (mode.chunked /\ workFile.numChunks <= MaxNumberOfChunksInWorkFile) =>
       /\ iwsErr # <<"WorkTooLarge">>
       /\ pc # "chunkCheck" => (pc = "wishlist" \/ "WishlistPost" \in net)

C10_Witness ==
  /\ pc = "done"
  /\ mode.chunked
  /\ workFile.numChunks = MaxNumberOfChunksInWorkFile + 1
  /\ sellerErr = <<"Transmitting", "WorkTooLarge">>
  /\ "WishlistPost" \notin net

\* C11: once doPerformBuy has returned, with a result or with an error, the
\* temporaries the buy created for the encrypted and for the decrypted result
\* have been disposed of and the scoped transport, if one was made, is closed.
C11_ResourcesReleased ==
  Returning =>
    /\ encTemp \in {"none", "disposed"}
    /\ decTemp \in {"none", "disposed"}
    /\ st \in {"none", "closed"}

\* A remote buy that returned its result after creating both temporaries.
C11_Witness ==
  /\ pc = "done"
  /\ ret.err = NoErr
  /\ encTemp = "disposed"
  /\ decTemp = "disposed"
  /\ st = "closed"

\* C12: every read and every write of a field of the activity is made holding
\* the activity's lock: the driver is never at a step whose code touches a
\* field outside execSync and outside a waitWhile predicate.
C12_FieldsUnderLock == UnlockedAccess(pc) = {}

\* The secret is written once and never changed.
C13_SecretStable ==
  buyerSecret # "none" => buyerSecret' = buyerSecret

\* What holds of the messages that carry the secret or its hash.
C13_Messages ==
  /\ estMsg # NoMsg =>
       /\ buyerSecret \in Secrets
       /\ estMsg.workHash = workFile.key
       /\ workFile.handle = "buy"
       /\ estMsg.workSecretHash = Sha256(<<estMsg.workHash, buyerSecret>>)
  /\ \A i \in 1..Len(form) :
       form[i].name = "buyersecret" =>
         /\ buyerSecret \in Secrets
         /\ form[i].value = HexString(buyerSecret)
  /\ ({"LinearPost", "WishlistPost"} \cap net # {}) =>
       \E i \in 1..Len(form) : form[i].name = "buyersecret"

\* C13: the EstablishBuyer message carries the key of the activity's duplicate
\* of the work file and the SHA-256 of that key followed by the buyer secret;
\* the secret was stored before the message was sent, never changes afterwards
\* and is the value the work request carries in its buyersecret field.
C13_SecretBinding == []C13_Messages /\ [][C13_SecretStable]_vars

\* The work request carrying the secret was sent after EstablishBuyer.
C13_Witness ==
  /\ estMsg # NoMsg
  /\ buyerSecret = "S1"
  /\ "WishlistPost" \in net
  /\ Len(form) = 2

\* C15: a remote buy acquires the transmission token, then stores the secret,
\* then starts its poller, then sends EstablishBuyer, then waits for phase
\* Transmitting, and contacts the seller only after that wait saw Transmitting;
\* no step is made without the ones before it.  When EstablishBuyer fails, the
\* buy fails with that error, no phase is waited for and no seller is contacted.
C15_EstablishingOrder ==
  /\ buyerSecret # "none" => token # "none"
  /\ poller # "off" => buyerSecret # "none"
  /\ estMsg # NoMsg => (poller # "off" /\ "EstablishBuyer" \in net)
  /\ "T" \in waited => estMsg # NoMsg
  /\ (InteractionEntered \/ SellerRequests \cap net # {}) =>
       /\ "T" \in waited
       /\ badSeen.T = NoTx
       /\ Rank(tx.phase) >= Rank("Transmitting")
  /\ ret.err = <<"Establish", "Coordinator">> =>
       /\ estMsg # NoMsg
       /\ waited = {}
       /\ ~InteractionEntered
       /\ SellerRequests \cap net = {}
       /\ ret.file = NoFile

\* The seller was contacted at the end of the whole sequence.
C15_Witness ==
  /\ "OPTIONS" \in net
  /\ "T" \in waited
  /\ estMsg # NoMsg
  /\ poller = "running"
  /\ token = "held"

\* What holds in every state of the order of the seller interaction.
C16_Order ==
  /\ "ChunkPost" \in net => answers["WishlistPost"] = "ok"
  /\ ("WishlistPost" \in net /\ encTemp # "none") =>
       (answers["ChunkPost"] = "ok" /\ "LinearPost" \notin net)
  /\ encResultFile # NoFile => encTemp \in {"closed", "disposed"}
  /\ "ReceiptPost" \in net => encResultFile # NoFile
  /\ encResultKey # "none" =>
       /\ answers["ReceiptPost"] = "ok"
       /\ "U" \in waited
       /\ badSeen.U = NoTx
       /\ Rank(tx.phase) >= Rank("Unverified")
  /\ (pc = "decrypt" \/ decTemp # "none") => encResultKey = "K"

\* The encrypted result is published from a temporary that was filled and closed.
C16_Publish ==
  encResultFile' # encResultFile => (encTemp = "closed" /\ encTemp' = "closed")

\* C16: on the chunked path the chunk-body POST starts only after the wishlist
\* POST was answered with 200; the encrypted result is read only from the
\* answer to the chunk-body POST; encResultFile is published only after that
\* answer was copied completely and the temporary closed; the receipt is posted
\* only after the publication; encResultKey is captured only after the receipt
\* was accepted and phase Unverified was reached; decryption starts only after
\* the capture.
C16_ChunkedOrder == []C16_Order /\ [][C16_Publish]_vars

\* A chunked buy that got as far as decrypting.
C16_Witness ==
  /\ answers["WishlistPost"] = "ok"
  /\ answers["ChunkPost"] = "ok"
  /\ answers["ReceiptPost"] = "ok"
  /\ encResultKey = "K"
  /\ decTemp = "disposed"

\* The requests of the protocol proper.
ProtocolPosts == PostKinds \ {"AssistPost"}

\* After a protocol request was answered with another status than 200.
C17_Failed ==
  (\E q \in ProtocolPosts : answers[q] = "bad") =>
    /\ pc \notin {"captureKey", "decrypt", "spawnFin"}
    /\ encResultKey = "none"
    /\ decTemp = "none"
    /\ resultFile = NoFile
    /\ fin = "none"
    /\ "AcceptResult" \notin net
    /\ Returning => (ret.err # NoErr /\ ret.file = NoFile)
    /\ pc = "done" => lastError = ret.err

\* The answer to the ticket POST changes nothing of the buy.
C17_TicketOnlyLogged ==
  answers'["AssistPost"] # answers["AssistPost"] =>
    UNCHANGED <<pc, ret, iwsErr, sellerErr, phaseErr, fieldVars, fin, st>>

\* C17: a status other than 200 in answer to the linear, wishlist, chunk-body
\* or receipt POST fails the trade: PerformBuy returns an error, nothing is
\* decrypted, resultFile stays unset, no finalizer is started and AcceptResult
\* is never sent.  The answer to an assistive-ticket POST is only logged.
C17_Non200Fails == []C17_Failed /\ [][C17_TicketOnlyLogged]_vars

\* The ticket POST was refused and the buy went on; the receipt POST was
\* refused and the buy failed.
C17_Witness ==
  /\ answers["AssistPost"] = "bad"
  /\ answers["ChunkPost"] = "ok"
  /\ answers["ReceiptPost"] = "bad"
  /\ pc = "done"

\* C18: on the chunked path the mode is used consistently.  In legacy mode the
\* permutation is the trivial one, the wishlist request carries a32chunks and
\* no syncinfojson, and no registry node is initialised.  In modern mode the
\* permutation is a drawn one, the request carries syncinfojson, and the node
\* was initialised under the handprint of that syncinfo before the request is
\* sent.  In both modes buyersecret follows the syncinfo field.
C18_ModeConsistency ==
  /\ (pc = "wishlist" /\ ~mode.legacy) =>
       (assistNode = "registered" /\ nodeKey = HandprintFromSyncInfo(syncinfo))
  /\ "WishlistPost" \in net =>
       /\ Len(form) = 2
       /\ form[2] = SecretField(buyerSecret)
       /\ syncinfo.chunksOf = workFile.key
       /\ mode.legacy =>
            /\ syncinfo.perm = "trivial"
            /\ form[1].name = "a32chunks"
            /\ \A i \in 1..Len(form) : form[i].name # "syncinfojson"
            /\ assistNode = "none"
            /\ nodeKey = "none"
       /\ ~mode.legacy =>
            /\ syncinfo.perm = "random"
            /\ form[1] = [name |-> "syncinfojson", value |-> <<"json", syncinfo>>]
            /\ \A i \in 1..Len(form) : form[i].name # "a32chunks"
            /\ assistNode # "none"
            /\ nodeKey = HandprintFromSyncInfo(syncinfo)

\* A modern chunked buy whose wishlist request was answered.
C18_Witness ==
  /\ answers["WishlistPost"] = "ok"
  /\ ~mode.legacy
  /\ syncinfo.perm = "random"
  /\ nodeKey # "none"

\* C19 as stated: the token is returned when the chunk-body POST begins
\* sending, not only after all chunk data has been written; the node's
\* interest is withdrawn when the push completes; and the token is no longer
\* held when doRemoteBuy has returned.
C19_TokenAtStart ==
  /\ "ChunkPost" \in net => token = "returned"
  /\ ("ChunkPost" \in net /\ producer = "done") => interestCall # "none"
  /\ (Returning /\ path = "remote") => token # "held"

\* C19, amended: on the chunked path the producer returns the token only
\* after it has written all chunk data and closed the body, and then withdraws
\* the node's interest; while it is still writing, or when it failed, the token
\* stays held until doRemoteBuy returns.  On every exit of the remote path the
\* token is no longer held once doRemoteBuy has returned.
C19_TokenReturn ==
  /\ ("ChunkPost" \in net /\ producer \in {"sending", "failed"} /\ ~Returning) =>
       token = "held"
  /\ ("ChunkPost" \in net /\ producer \in {"tokenBack", "done"}) =>
       token = "returned"
  /\ interestCall # "none" <=> ("ChunkPost" \in net /\ producer = "done")
  /\ (Returning /\ path = "remote") =>
       /\ token \in {"none", "returned"}
       /\ token = "none" => ret.err \in {<<"NoToken">>, <<"Interrupted">>}

\* The producer returned the token and withdrew the interest while the driver
\* still waits for the answer to the chunk-body POST.
C19_Witness ==
  /\ pc = "chunkResp"
  /\ producer = "done"
  /\ token = "returned"
  /\ interestCall = "registered"

\* C20: at most one transaction poller runs at any moment: the poller of
\* doRemoteBuy has been stopped before the poller of finishBuy is started.
C20_OnePoller ==
  /\ ~(poller = "running" /\ finPoller = "running")
  /\ finPoller # "off" => poller = "stopped"

\* A goroutine of the buy is at a stop handshake or at a step that follows
\* one: the driver registers the transport with the watchdog, sends the exit
\* signal or the abort signal, or runs the deferred calls after them; the
\* finalizer has seen AcceptResult fail or tx.state leave Active and has its
\* abort signal to send.
C21_Pending ==
  \/ pc \in {"iwsRegister", "iwsExit", "abortPoll", "returnToken", "record",
              "clearAlive"}
  \/ fin \in {"failedAbort", "clearAlive", "abortPoll"}
  \/ (fin = "wait" /\ tx.state # "Active")

C22_WithinLifetime ==
  /\ ticketCall \in {"none", "registered"}
  /\ interestCall \in {"none", "registered"}
  /\ mode.legacy => ticketCall = "none" /\ interestCall = "none"

====
